---- MODULE Spec2Model ----
(***************************************************************************)
(* The conference page (src/EVENTHORIZONS/src/pages/Conference.tsx) as a   *)
(* state machine: the component's useState cells, the mount effect with    *)
(* its simulated-join timer, the event handlers, and the reaction-removal  *)
(* timers, driven by a simulated clock (Date.now() / setTimeout).          *)
(*                                                                         *)
(* Every step is one macrotask of the event loop: a run of the mount       *)
(* effect, a handler call, a timer callback, or the clock moving on.  The  *)
(* clock never passes a pending timer: a timer fires at the reading it is  *)
(* due at, timers due at one reading in the order they were set.  State    *)
(* updates of a callback that runs after the page was taken down are       *)
(* dropped by React; the callback is counted in staleCallbacks.  A         *)
(* navigation away from the page (a redirect, the Leave button) ends in    *)
(* the router taking the page down.                                        *)
(*                                                                         *)
(* Spec is the whole machine.  SpecSession and SpecRoster are the same     *)
(* actions without the dependency changes of the mount effect, and without *)
(* the chat and the reactions: the handlers left out of either write none  *)
(* of the cells the other actions of that specification read.  SpecLate is *)
(* the reactions and their timers when callbacks may run after the reading *)
(* they are due at, with the fairness of an event loop that runs every     *)
(* callback that is due.                                                   *)
(***************************************************************************)
EXTENDS Integers, Sequences, FiniteSets, TLC

(* ------------------------------ bounds --------------------------------- *)
\* the simulated clock stops at MaxClock ms; handlers that schedule a timer
\* are only taken while the timer can still fire
MaxClock == 4000
\* largest step of the simulated clock, in ms
TickMs == 1000
\* number of external events in one session: handler calls (clicks, typing,
\* submits) and dependency changes of the mount effect
MaxEvents == 4

(* ------------------------- program constants --------------------------- *)
JoinDelay == 2000
ReactionDelay == 3000

mockParticipants ==
    << [id |-> "mock1", name |-> "Jane Smith"],
       [id |-> "mock2", name |-> "John Doe"] >>

\* the keys of reactionIcons a click can pass to sendReaction
ReactionTypes == {"thumbsup", "heart"}

(* ------------------------------ inputs --------------------------------- *)
NoUser == [id |-> "none", name |-> "none"]
\* values of useAuth().currentUser other than null; the second has a falsy name
Users == { [id |-> "u1", name |-> "Alice"], [id |-> "u2", name |-> ""] }

\* values of the chat input box, as sequences of characters
InputTexts == { <<>>, <<" ", " ">>, <<"h", "i">>, <<" ", "h", "i", " ">> }

Whitespace == {" "}

(* ------------------------------ state ---------------------------------- *)
VARIABLES
    phase,             \* "constructed" | "active" | "redirected" | "unmounted"
    event,             \* getEventById(id): TRUE when the event exists
    currentUser,       \* useAuth().currentUser, NoUser for null
    route,             \* last target handed to navigate(), "conference" if none
    isVideoEnabled, isAudioEnabled, isChatOpen, showReactions,
    participants, messages, messageInput, currentReactions,
    clock,             \* Date.now()
    joinTimers,        \* pending simulated-join timers: [run, due]
    cleanup,           \* run whose cleanup function is registered, 0 if none
    reactionTimers,    \* pending reaction-removal timers: [id, due]
    runs,              \* how many times the mount effect has run
    toasted,           \* notifications raised by the latest step
    op,                \* the latest step: [name, arg]
    log,               \* accepted sendMessage / sendReaction calls, in call order
    joins,             \* how many times the simulated-join callback has run
    staleCallbacks,    \* timer callbacks that ran after the teardown
    events             \* external events so far

vars == << phase, event, currentUser, route, isVideoEnabled, isAudioEnabled,
           isChatOpen, showReactions, participants, messages, messageInput,
           currentReactions, clock, joinTimers, cleanup, reactionTimers, runs,
           toasted, op, log, joins, staleCallbacks,
           events >>

flags == << isVideoEnabled, isAudioEnabled, isChatOpen, showReactions >>
env == << event, currentUser, route >>
lists == << participants, messages, currentReactions >>
timers == << joinTimers, cleanup, reactionTimers, runs >>
ghosts == << log, joins, staleCallbacks >>

(* ----------------------------- helpers --------------------------------- *)
Min(a, b) == IF a <= b THEN a ELSE b

\* String.prototype.trim on a sequence of characters
RECURSIVE TrimStart(_)
TrimStart(s) ==
    IF s # <<>> /\ Head(s) \in Whitespace THEN TrimStart(Tail(s)) ELSE s

RECURSIVE TrimEnd(_)
TrimEnd(s) ==
    IF s # <<>> /\ s[Len(s)] \in Whitespace
    THEN TrimEnd(SubSeq(s, 1, Len(s) - 1))
    ELSE s

Trim(s) == TrimEnd(TrimStart(s))

\* currentUser?.name || "Anonymous"
DisplayName(u) == IF u = NoUser \/ u.name = "" THEN "Anonymous" ELSE u.name

\* the record of a step
Step(name, arg) == [name |-> name, arg |-> arg]

OnOff(b) == IF b THEN "on" ELSE "off"

\* the page renders its controls only when the event and the user exist and
\* the mount effect has run
Rendered == phase = "active"

\* an external event is taken while the session's budget lasts
External == events < MaxEvents /\ events' = events + 1

Init ==
    /\ phase = "constructed"
    /\ event \in BOOLEAN
    /\ currentUser \in Users \cup {NoUser}
    /\ route = "conference"
    /\ isVideoEnabled = TRUE
    /\ isAudioEnabled = TRUE
    /\ isChatOpen = FALSE
    /\ showReactions = FALSE
    /\ participants = <<>>
    /\ messages = <<>>
    /\ messageInput = <<>>
    /\ currentReactions = <<>>
    /\ clock = 0
    /\ joinTimers = <<>>
    /\ cleanup = 0
    /\ reactionTimers = <<>>
    /\ runs = 0
    /\ toasted = <<>>
    /\ op = [name |-> "construct", arg |-> "-"]
    /\ log = <<>>
    /\ joins = 0
    /\ staleCallbacks = 0
    /\ events = 0

(* --------------------------- mount effect ------------------------------ *)
\* mutant of ClearTimeout: the cleanup leaves the timer pending
ClearTimeoutNoop(ts, h) == ts

\* clearTimeout(timer) for the timer registered by effect run h
ClearTimeout(ts, h) == SelectSeq(ts, LAMBDA t : t.run # h)

\* the cleanup function returned by the previous run of the effect, if any
RunCleanup(ts) == IF cleanup # 0 THEN ClearTimeout(ts, cleanup) ELSE ts

\* mutant of JoinSelf: the roster is reset to the current user
JoinSelfReset(prev, u) == << [id |-> u.id, name |-> u.name] >>

\* the roster after setParticipants(prev => [...prev, {id, name}])
JoinSelf(prev, u) == Append(prev, [id |-> u.id, name |-> u.name])

\* mutant of Validation: the user is checked before the event
ValidationUserFirst(e, u) ==
    IF u = NoUser THEN "no-user" ELSE IF ~e THEN "no-event" ELSE "ok"

\* the two checks at the head of the mount effect, in their order
Validation(e, u) ==
    IF ~e THEN "no-event" ELSE IF u = NoUser THEN "no-user" ELSE "ok"

\* body of the mount effect for event e and user u, with ts the pending
\* simulated-join timers
EffectBody(e, u, ts) ==
    IF Validation(e, u) = "no-event" THEN
        /\ toasted' = << "Event not found" >>
        /\ route' = "/events"
        /\ phase' = "redirected"
        /\ UNCHANGED participants
        /\ joinTimers' = ts
        /\ cleanup' = 0
    ELSE IF Validation(e, u) = "no-user" THEN
        /\ toasted' = << "Authentication required" >>
        /\ route' = "/events/:id"
        /\ phase' = "redirected"
        /\ UNCHANGED participants
        /\ joinTimers' = ts
        /\ cleanup' = 0
    ELSE
        /\ toasted' = <<>>
        /\ UNCHANGED route
        /\ phase' = "active"
        /\ participants' = JoinSelf(participants, u)
        /\ joinTimers' = Append(ts, [run |-> runs + 1, due |-> clock + JoinDelay])
        /\ cleanup' = runs + 1

\* first run of the effect, after the first render
Mount ==
    /\ UNCHANGED events
    /\ phase = "constructed"
    /\ EffectBody(event, currentUser, joinTimers)
    /\ runs' = runs + 1
    /\ op' = Step("mount", "-")
    /\ UNCHANGED << event, currentUser, flags, messages, messageInput,
                    currentReactions, clock, reactionTimers, ghosts >>

\* a dependency of the effect changed (currentUser, event, id, navigate, toast):
\* the previous cleanup runs, then the effect runs again
Rerun(e, u) ==
    /\ phase = "active"
    /\ External
    /\ clock + JoinDelay <= MaxClock
    /\ event' = e
    /\ currentUser' = u
    /\ EffectBody(e, u, RunCleanup(joinTimers))
    /\ runs' = runs + 1
    /\ op' = Step("rerun", "-")
    /\ UNCHANGED << flags, messages, messageInput, currentReactions, clock,
                    reactionTimers, ghosts >>

\* the simulated-join timer callback
JoinTimerFire ==
    /\ UNCHANGED events
    /\ joinTimers # <<>>
    /\ Head(joinTimers).due <= clock
    /\ joinTimers' = Tail(joinTimers)
    /\ toasted' = << "Participants joined" >>
    /\ joins' = joins + 1
    /\ IF phase = "unmounted"
       THEN /\ staleCallbacks' = staleCallbacks + 1
            /\ UNCHANGED participants
       ELSE /\ participants' = participants \o mockParticipants
            /\ UNCHANGED staleCallbacks
    /\ op' = Step("joinTimer", "-")
    /\ UNCHANGED << phase, env, flags, messages, messageInput, currentReactions,
                    clock, cleanup, reactionTimers, runs, log >>

\* the page is taken down: the router after a navigation, or the browser
Unmount ==
    /\ UNCHANGED events
    /\ phase \in {"active", "redirected"}
    /\ phase' = "unmounted"
    /\ joinTimers' = RunCleanup(joinTimers)
    /\ cleanup' = 0
    /\ toasted' = <<>>
    /\ op' = Step("unmount", "-")
    /\ UNCHANGED << env, flags, lists, messageInput, clock, reactionTimers, runs, ghosts >>

(* ----------------------------- handlers --------------------------------- *)
\* mutant of Toggle: the flag is switched off whatever it was
ToggleOff(b) == FALSE

\* the value a toggle stores: !flag
Toggle(b) == ~b

toggleVideo ==
    /\ Rendered
    /\ External
    /\ isVideoEnabled' = Toggle(isVideoEnabled)
    /\ toasted' = << IF isVideoEnabled THEN "Video disabled" ELSE "Video enabled" >>
    /\ op' = Step("toggleVideo", OnOff(isVideoEnabled))
    /\ UNCHANGED << phase, env, isAudioEnabled, isChatOpen, showReactions, lists,
                    messageInput, clock, timers, ghosts >>

toggleAudio ==
    /\ Rendered
    /\ External
    /\ isAudioEnabled' = Toggle(isAudioEnabled)
    /\ toasted' = << IF isAudioEnabled THEN "Microphone muted"
                                       ELSE "Microphone unmuted" >>
    /\ op' = Step("toggleAudio", OnOff(isAudioEnabled))
    /\ UNCHANGED << phase, env, isVideoEnabled, isChatOpen, showReactions, lists,
                    messageInput, clock, timers, ghosts >>

toggleChat ==
    /\ Rendered
    /\ External
    /\ isChatOpen' = Toggle(isChatOpen)
    /\ toasted' = <<>>
    /\ op' = Step("toggleChat", OnOff(isChatOpen))
    /\ UNCHANGED << phase, env, isVideoEnabled, isAudioEnabled, showReactions,
                    lists, messageInput, clock, timers, ghosts >>

toggleReactions ==
    /\ Rendered
    /\ External
    /\ showReactions' = Toggle(showReactions)
    /\ toasted' = <<>>
    /\ op' = Step("toggleReactions", OnOff(showReactions))
    /\ UNCHANGED << phase, env, isVideoEnabled, isAudioEnabled, isChatOpen, lists,
                    messageInput, clock, timers, ghosts >>

\* onChange of the chat input: setMessageInput(e.target.value)
setMessageInput(text) ==
    /\ Rendered
    /\ External
    /\ text # messageInput
    /\ messageInput' = text
    /\ toasted' = <<>>
    /\ op' = Step("setMessageInput", "-")
    /\ UNCHANGED << phase, env, flags, lists, clock, timers, ghosts >>

\* mutant of Accepted: the input is tested without trim()
AcceptedUntrimmed(input) == input # <<>>

\* the guard of sendMessage: messageInput.trim() is truthy
Accepted(input) == Trim(input) # <<>>

\* mutant of NewMessage: the content is the trimmed input
NewMessageTrimmed(u, input, now) ==
    [sender |-> DisplayName(u), content |-> Trim(input), timestamp |-> now,
     isSystemMessage |-> FALSE]

\* the message sendMessage builds
NewMessage(u, input, now) ==
    [sender |-> DisplayName(u), content |-> input, timestamp |-> now,
     isSystemMessage |-> FALSE]

\* mutant of AppendMessage: the message overwrites the latest one
ReplaceLastMessage(prev, m) ==
    IF prev = <<>> THEN << m >> ELSE [prev EXCEPT ![Len(prev)] = m]

\* mutant of AppendMessage: the message is put in front
PrependMessage(prev, m) == << m >> \o prev

\* setMessages(prev => [...prev, m])
AppendMessage(prev, m) == Append(prev, m)

sendMessage ==
    /\ Rendered
    /\ External
    /\ IF Accepted(messageInput)
       THEN /\ messages' = AppendMessage(messages,
                               NewMessage(currentUser, messageInput, clock))
            /\ messageInput' = <<>>
            /\ log' = Append(log, [call |-> "sendMessage", arg |-> messageInput])
       ELSE UNCHANGED << messages, messageInput, log >>
    /\ toasted' = <<>>
    /\ op' = Step("sendMessage", IF Accepted(messageInput) THEN "accepted"
                                                            ELSE "ignored")
    /\ UNCHANGED << phase, env, flags, participants, currentReactions, clock,
                    timers, joins, staleCallbacks >>

shareConference ==
    /\ Rendered
    /\ External
    /\ toasted' = << "Link copied" >>
    /\ op' = Step("shareConference", "-")
    /\ UNCHANGED << phase, env, flags, lists, messageInput, clock, timers, ghosts >>

\* mutant of ReactionMessage: the announcement lacks the flag
ReactionMessageUnflagged(u, type, now) ==
    [sender |-> "System",
     content |-> << DisplayName(u), " reacted with ", type >>,
     timestamp |-> now, isSystemMessage |-> FALSE]

\* the reaction sendReaction builds: its id is Date.now()
NewReaction(u, type, now) ==
    [id |-> now, type |-> type, user |-> DisplayName(u), timestamp |-> now]

\* the chat line announcing a reaction
ReactionMessage(u, type, now) ==
    [sender |-> "System",
     content |-> << DisplayName(u), " reacted with ", type >>,
     timestamp |-> now, isSystemMessage |-> TRUE]

\* mutant of AddReaction: the new reaction replaces the active ones
ReplaceReactions(prev, r) == << r >>

\* setCurrentReactions(prev => [...prev, r])
AddReaction(prev, r) == Append(prev, r)

sendReaction(type) ==
    /\ Rendered
    /\ External
    /\ showReactions
    /\ clock + ReactionDelay <= MaxClock
    /\ currentReactions' = AddReaction(currentReactions,
                               NewReaction(currentUser, type, clock))
    /\ messages' = AppendMessage(messages, ReactionMessage(currentUser, type, clock))
    /\ reactionTimers' = Append(reactionTimers,
                               [id |-> NewReaction(currentUser, type, clock).id,
                                due |-> clock + ReactionDelay])
    /\ showReactions' = FALSE
    /\ log' = Append(log, [call |-> "sendReaction", arg |-> << type >>])
    /\ toasted' = <<>>
    /\ op' = Step("sendReaction", type)
    /\ UNCHANGED << phase, env, isVideoEnabled, isAudioEnabled, isChatOpen,
                    participants, messageInput, clock, joinTimers, cleanup, runs, joins, staleCallbacks >>

\* mutant of RemoveReaction: the callback empties the active reactions
RemoveAllReactions(prev, id) == <<>>

\* prev.filter(r => r.id !== id)
RemoveReaction(prev, id) == SelectSeq(prev, LAMBDA r : r.id # id)

\* the removal callback of the oldest pending reaction timer
ReactionTimerFire ==
    /\ UNCHANGED events
    /\ reactionTimers # <<>>
    /\ Head(reactionTimers).due <= clock
    /\ reactionTimers' = Tail(reactionTimers)
    /\ IF phase = "unmounted"
       THEN /\ staleCallbacks' = staleCallbacks + 1
            /\ UNCHANGED currentReactions
       ELSE /\ currentReactions' =
                  RemoveReaction(currentReactions, Head(reactionTimers).id)
            /\ UNCHANGED staleCallbacks
    /\ toasted' = <<>>
    /\ op' = Step("reactionTimer", "-")
    /\ UNCHANGED << phase, env, flags, participants, messages, messageInput,
                    clock, joinTimers, cleanup, runs, log, joins >>

\* the Leave Conference button: navigate(`/events/${id}`), and the router
\* takes the page down
leaveConference ==
    /\ Rendered
    /\ External
    /\ route' = "/events/:id"
    /\ phase' = "unmounted"
    /\ joinTimers' = RunCleanup(joinTimers)
    /\ cleanup' = 0
    /\ toasted' = <<>>
    /\ op' = Step("leaveConference", "-")
    /\ UNCHANGED << event, currentUser, flags, lists, messageInput, clock,
                    reactionTimers, runs, ghosts >>

(* ------------------------------ clock ---------------------------------- *)
Dues == { joinTimers[i].due : i \in DOMAIN joinTimers }
          \cup { reactionTimers[i].due : i \in DOMAIN reactionTimers }

\* the simulated clock advances, never past a timer that is due
Tick ==
    /\ UNCHANGED events
    /\ clock < MaxClock
    /\ \A d \in Dues : d > clock
    /\ \E t \in (clock + 1) .. Min(clock + TickMs, MaxClock) :
         /\ \/ t = Min(clock + TickMs, MaxClock)
            \/ t \in Dues
         /\ \A d \in Dues : t <= d
         /\ clock' = t
    /\ toasted' = <<>>
    /\ op' = Step("tick", "-")
    /\ UNCHANGED << phase, env, flags, lists, messageInput, timers,
                    ghosts >>

\* the event loop runs late: the clock moves on although the callback of a
\* timer that is due has not run yet (setTimeout gives the least delay only)
Stall ==
    /\ UNCHANGED events
    /\ clock < MaxClock
    /\ \E d \in Dues : d <= clock
    /\ clock' = Min(clock + TickMs, MaxClock)
    /\ toasted' = <<>>
    /\ op' = Step("stall", "-")
    /\ UNCHANGED << phase, env, flags, lists, messageInput, timers,
                    ghosts >>

Next ==
    \/ Mount
    \/ \E e \in BOOLEAN, u \in Users \cup {NoUser} : Rerun(e, u)
    \/ JoinTimerFire
    \/ Unmount
    \/ toggleVideo
    \/ toggleAudio
    \/ toggleChat
    \/ toggleReactions
    \/ \E text \in InputTexts : setMessageInput(text)
    \/ sendMessage
    \/ shareConference
    \/ \E type \in ReactionTypes : sendReaction(type)
    \/ ReactionTimerFire
    \/ leaveConference
    \/ Tick

Spec == Init /\ [][Next]_vars

\* the session while the dependencies of the mount effect stay as they are
NextSession ==
    \/ Mount
    \/ JoinTimerFire
    \/ Unmount
    \/ toggleVideo
    \/ toggleAudio
    \/ toggleChat
    \/ toggleReactions
    \/ \E text \in InputTexts : setMessageInput(text)
    \/ sendMessage
    \/ shareConference
    \/ \E type \in ReactionTypes : sendReaction(type)
    \/ ReactionTimerFire
    \/ leaveConference
    \/ Tick

SpecSession == Init /\ [][NextSession]_vars

\* the life of the page and its roster, without the chat and the reactions
NextRoster ==
    \/ Mount
    \/ \E e \in BOOLEAN, u \in Users \cup {NoUser} : Rerun(e, u)
    \/ JoinTimerFire
    \/ Unmount
    \/ toggleVideo
    \/ toggleAudio
    \/ toggleChat
    \/ shareConference
    \/ leaveConference
    \/ Tick

SpecRoster == Init /\ [][NextRoster]_vars

\* the reactions and their timers under an event loop that may run late; a
\* callback that is due runs in the end, and the clock goes on to MaxClock
NextLate ==
    \/ Mount
    \/ JoinTimerFire
    \/ Unmount
    \/ toggleReactions
    \/ \E type \in ReactionTypes : sendReaction(type)
    \/ ReactionTimerFire
    \/ leaveConference
    \/ Tick
    \/ Stall

SpecLate ==
    /\ Init
    /\ [][NextLate]_vars
    /\ WF_vars(Tick)
    /\ WF_vars(JoinTimerFire)
    /\ WF_vars(ReactionTimerFire)

(* ------------------------- helpers of the claims ----------------------- *)
\* the text has at least one character that is not whitespace
NonBlank(s) == \E i \in DOMAIN s : s[i] \notin Whitespace

\* s extended by exactly one entry at its end
GrowsByOne(s, t) == Len(t) = Len(s) + 1 /\ SubSeq(t, 1, Len(s)) = s

Last(s) == s[Len(s)]

\* the contents of the user messages of a transcript, in transcript order
UserContents(ms) ==
    LET users == SelectSeq(ms, LAMBDA m : ~m.isSystemMessage)
    IN  [i \in DOMAIN users |-> users[i].content]

\* the texts of the accepted sendMessage calls, in call order
SentTexts(l) ==
    LET sent == SelectSeq(l, LAMBDA c : c.call = "sendMessage")
    IN  [i \in DOMAIN sent |-> sent[i].arg]

Self == [id |-> currentUser.id, name |-> currentUser.name]

(* ------------------------------- claims -------------------------------- *)
\* C1: a sendMessage call whose input has a non-whitespace character makes the
\* transcript exactly one entry longer, the new entry is the input, and the user
\* messages stand in the transcript in the order of the calls.
C1_SendMessageAppends ==
    [][ (op'.name = "sendMessage" /\ NonBlank(messageInput)) =>
            /\ GrowsByOne(messages, messages')
            /\ Last(messages').content = messageInput
            /\ UserContents(messages') = SentTexts(log') ]_vars

\* two accepted sendMessage calls with different texts have been made
C1_Witness ==
    /\ op = [name |-> "sendMessage", arg |-> "accepted"]
    /\ Len(SentTexts(log)) = 2
    /\ log[1].arg # log[2].arg

\* C2: a sendMessage call whose input is empty or only whitespace changes
\* nothing: transcript, input buffer, roster, active reactions, flags, timers and
\* route stay as they were, and no notification is raised.
C2_BlankIsNoOp ==
    [][ (op'.name = "sendMessage" /\ ~NonBlank(messageInput)) =>
            /\ UNCHANGED << messages, messageInput, participants,
                            currentReactions, flags, phase, env, timers, clock >>
            /\ toasted' = <<>> ]_vars

\* a whitespace-only input was submitted after a message had been sent
C2_Witness ==
    /\ op = [name |-> "sendMessage", arg |-> "ignored"]
    /\ messageInput = << " ", " " >>
    /\ messages # <<>>

\* C3: every sendReaction(t) call appends one reaction of type t to the active
\* reactions and one message to the transcript, a system message (sender
\* "System", isSystemMessage set) that announces the reaction.
C3_SendReactionAppends ==
    [][ op'.name = "sendReaction" =>
            /\ GrowsByOne(currentReactions, currentReactions')
            /\ Last(currentReactions').type = op'.arg
            /\ GrowsByOne(messages, messages')
            /\ Last(messages').sender = "System"
            /\ Last(messages').isSystemMessage
            /\ Last(messages').content =
                   << DisplayName(currentUser), " reacted with ", op'.arg >> ]_vars

\* a reaction was sent while another one was still active
C3_Witness ==
    /\ op.name = "sendReaction"
    /\ Len(currentReactions) = 2
    /\ Len(messages) = 2

\* C4 (as claimed): when a reaction's removal timer fires in a live page, the
\* active reactions lose exactly one entry, the one with that reaction's id, and
\* the others stay in their order.
C4_Original ==
    [][ (op'.name = "reactionTimer" /\ phase # "unmounted") =>
            \E i \in DOMAIN currentReactions :
                /\ currentReactions[i].id = Head(reactionTimers).id
                /\ currentReactions' =
                       SubSeq(currentReactions, 1, i - 1)
                           \o SubSeq(currentReactions, i + 1, Len(currentReactions))
      ]_vars

\* C5 (as claimed): in a live page a reaction stays in the active set until its
\* own removal timer fires: the active reactions are those whose timer is
\* pending, in the order they were sent.
C5_Original ==
    phase = "active" =>
        /\ Len(currentReactions) = Len(reactionTimers)
        /\ \A i \in DOMAIN currentReactions :
               currentReactions[i].id = reactionTimers[i].id

\* C6 (as claimed): in an active session the roster is the current user alone
\* until the simulated join, and the current user followed by the two simulated
\* peers from then on.
C6_Original ==
    phase = "active" =>
        participants = IF joins = 0 THEN << Self >>
                                    ELSE << Self >> \o mockParticipants

\* C7 (as claimed): no two participants of the roster have the same id.
C7_Original ==
    \A i, j \in DOMAIN participants :
        i # j => participants[i].id # participants[j].id

\* C8: once the page is torn down no simulated-join timer is pending, and from
\* then on the join callback never runs: the roster stays as it is and no
\* "Participants joined" notification is raised.
C8_TeardownCancelsJoin ==
    [][ /\ phase' = "unmounted" => joinTimers' = <<>>
        /\ phase = "unmounted" =>
               /\ participants' = participants
               /\ joins' = joins
               /\ toasted' # << "Participants joined" >> ]_vars

\* the page was torn down before the join timer fired, and its delay has passed
C8_Witness ==
    /\ phase = "unmounted"
    /\ participants # <<>>
    /\ joins = 0
    /\ clock > JoinDelay

\* C9: a run of the mount effect that finds the event missing or no user
\* redirects (to the events list when the event is missing, else to the event's
\* page), raises exactly one error notification, leaves the roster alone,
\* schedules no timer and renders nothing; afterwards the effect never runs
\* again and roster and timers stay as they are.
C9_RedirectIsTerminal ==
    [][ /\ (op'.name \in {"mount", "rerun"} /\ (~event' \/ currentUser' = NoUser)) =>
               /\ route' = IF ~event' THEN "/events" ELSE "/events/:id"
               /\ toasted' = << IF ~event' THEN "Event not found"
                                          ELSE "Authentication required" >>
               /\ participants' = participants
               /\ \A i \in DOMAIN joinTimers' : joinTimers'[i].run # runs'
               /\ Len(joinTimers') <= Len(joinTimers)
               /\ ~Rendered'
        /\ phase = "redirected" =>
               /\ phase' \in {"redirected", "unmounted"}
               /\ UNCHANGED << participants, joinTimers, runs, route >> ]_vars

\* the first run found neither the event nor a user: the events list wins
C9_Witness ==
    /\ op.name = "mount"
    /\ ~event
    /\ currentUser = NoUser
    /\ route = "/events"

\* C10: a toggle of the video (audio) flag flips that flag and leaves the other
\* flag, the roster, the transcript and the active reactions alone; the second
\* of two toggles in a row restores the value the flag had before the first.
C10_ToggleTwiceRestores ==
    [][ /\ op'.name = "toggleVideo" =>
               /\ isVideoEnabled' # isVideoEnabled
               /\ UNCHANGED << isAudioEnabled, participants, messages,
                               currentReactions >>
               /\ op.name = "toggleVideo" => isVideoEnabled' = (op.arg = "on")
        /\ op'.name = "toggleAudio" =>
               /\ isAudioEnabled' # isAudioEnabled
               /\ UNCHANGED << isVideoEnabled, participants, messages,
                               currentReactions >>
               /\ op.name = "toggleAudio" => isAudioEnabled' = (op.arg = "on") ]_vars

\* the video flag was toggled twice in a row, with a reaction announced before
C10_Witness ==
    /\ op = [name |-> "toggleVideo", arg |-> "off"]
    /\ isVideoEnabled
    /\ messages # <<>>
    /\ currentReactions # <<>>

\* C11: an accepted sendMessage call appends a message whose sender is the
\* current user's name ("Anonymous" when the user has none), whose content is
\* the input as typed, untrimmed, and which is not a system message; the input
\* buffer is empty afterwards.
C11_MessageFields ==
    [][ (op'.name = "sendMessage" /\ NonBlank(messageInput)) =>
            /\ Last(messages').sender =
                   IF currentUser = NoUser \/ currentUser.name = ""
                   THEN "Anonymous" ELSE currentUser.name
            /\ Last(messages').content = messageInput
            /\ Len(Last(messages').content) = Len(messageInput)
            /\ ~Last(messages').isSystemMessage
            /\ messageInput' = <<>> ]_vars

\* a user without a name has sent a text with blanks around it
C11_Witness ==
    /\ op = [name |-> "sendMessage", arg |-> "accepted"]
    /\ Last(messages).sender = "Anonymous"
    /\ Last(messages).content = << " ", "h", "i", " " >>
    /\ messageInput = <<>>

\* C12 (as claimed): once the page is torn down no reaction-removal callback
\* runs any more.
C12_Original ==
    [][ phase = "unmounted" =>
            /\ op'.name # "reactionTimer"
            /\ staleCallbacks' = staleCallbacks ]_vars

\* the session is live and some reaction is in the active set
ReactionsShown == phase = "active" /\ currentReactions # <<>>

\* the active set has emptied, or the session is over
ReactionsGone == currentReactions = <<>> \/ phase # "active"

\* C13 (as claimed): while the session is active no reaction in the active set
\* was inserted more than 3000 ms ago, and the active set becomes empty in the
\* end.
C13_Original ==
    /\ [](phase = "active" =>
             \A i \in DOMAIN currentReactions :
                 clock - currentReactions[i].timestamp <= ReactionDelay)
    /\ (ReactionsShown ~> ReactionsGone)

\* C13 (amended): while the session is active every reaction in the active set
\* has its removal timer pending, due 3000 ms after the reaction was sent; no
\* reaction leaves the active set earlier than that; and the active set becomes
\* empty in the end.
C13_RemovedNoEarlier ==
    /\ [](phase = "active" =>
             \A i \in DOMAIN currentReactions :
                 \E k \in DOMAIN reactionTimers :
                     /\ reactionTimers[k].id = currentReactions[i].id
                     /\ reactionTimers[k].due =
                            currentReactions[i].timestamp + ReactionDelay)
    /\ [][ phase = "active" =>
               \A i \in DOMAIN currentReactions :
                   (\A j \in DOMAIN currentReactions' :
                        currentReactions'[j] # currentReactions[i])
                       => clock >= currentReactions[i].timestamp + ReactionDelay
         ]_vars
    /\ (ReactionsShown ~> ReactionsGone)

\* a removal callback ran later than 3000 ms after its reaction was sent
C13_Witness ==
    /\ op.name = "reactionTimer"
    /\ phase = "active"
    /\ currentReactions = <<>>
    /\ reactionTimers = <<>>
    /\ clock = MaxClock
    /\ \A i \in DOMAIN messages : messages[i].timestamp = 0

\* s is an initial part of t
IsPrefix(s, t) == Len(s) <= Len(t) /\ SubSeq(t, 1, Len(s)) = s

\* C14: every step leaves the earlier transcript as an initial part of the
\* later one, and the transcript holds, in the order the calls arrived, one
\* entry for each accepted sendMessage call (its text) and each sendReaction
\* call (its announcement).
C14_TranscriptAppendOnly ==
    [][ /\ IsPrefix(messages, messages')
        /\ Len(messages') = Len(log')
        /\ \A i \in DOMAIN messages' :
               IF log'[i].call = "sendMessage"
               THEN /\ messages'[i].sender # "System"
                    /\ messages'[i].content = log'[i].arg
               ELSE /\ messages'[i].sender = "System"
                    /\ messages'[i].content[3] = log'[i].arg[1] ]_vars

\* a reaction was announced after a user message, and its timer has fired
C14_Witness ==
    /\ op.name = "reactionTimer"
    /\ phase = "active"
    /\ Len(messages) = 2
    /\ messages[1].sender # "System"
    /\ messages[2].sender = "System"

\* C15 (as claimed): no two reactions in the active set have the same id.
C15_Original ==
    \A i, j \in DOMAIN currentReactions :
        i # j => currentReactions[i].id # currentReactions[j].id

\* C16 (as claimed): the simulated-join callback runs at most once in a
\* session, so the peers are appended and "Participants joined" is raised at
\* most once.
C16_Original ==
    /\ joins <= 1
    /\ Len(SelectSeq(participants, LAMBDA q : q.id = "mock1")) <= 1

\* C17: every step leaves the earlier roster as an initial part of the later
\* one, and only a run of the mount effect or the simulated-join callback
\* changes the roster: the handlers, the reaction expiry, the teardown and the
\* clock leave it as it is.
C17_RosterGrowsOnly ==
    [][ /\ IsPrefix(participants, participants')
        /\ participants' # participants =>
               op'.name \in {"mount", "rerun", "joinTimer"}
        /\ op'.name \in {"sendMessage", "sendReaction", "reactionTimer",
                         "toggleVideo", "toggleAudio", "toggleChat",
                         "toggleReactions", "shareConference"} =>
               participants' = participants ]_vars

\* the roster grew by a re-run and by the join callback, and a reaction was
\* sent in between
C17_Witness ==
    /\ op.name = "joinTimer"
    /\ Len(participants) = 4
    /\ runs = 2
    /\ messages # <<>>

\* C18: a reaction expiry leaves the transcript as it is; the system messages
\* of the transcript are as many as the sendReaction calls made so far, however
\* many reactions are still active; and a message is flagged as a system
\* message exactly when a sendReaction call produced it.
C18_SystemMessagesCountReactions ==
    [][ /\ op'.name = "reactionTimer" => messages' = messages
        /\ Len(SelectSeq(messages', LAMBDA m : m.isSystemMessage))
               = Len(SelectSeq(log', LAMBDA c : c.call = "sendReaction"))
        /\ Len(messages') = Len(log')
        /\ \A i \in DOMAIN messages' :
               messages'[i].isSystemMessage <=> log'[i].call = "sendReaction"
      ]_vars

\* a user message and a reaction were sent, and the reaction has expired
C18_Witness ==
    /\ op.name = "reactionTimer"
    /\ phase = "active"
    /\ Len(currentReactions) < Len(SelectSeq(messages, LAMBDA m : m.isSystemMessage))
    /\ \E i \in DOMAIN messages : ~messages[i].isSystemMessage
====
